---- MODULE Spec2Model ----
(***************************************************************************)
(* A model of the AWS resource handlers (S3, Athena), the tenant SSM       *)
(* resolver, the parameter-store stack and the Omics pipeline stack of      *)
(* data.all.  Every handler is one action; the action records in `last`     *)
(* what the call was given, which requests it issued (its trace), what it   *)
(* caught, and how it ended (a value returned or an exception raised).      *)
(***************************************************************************)
EXTENDS Integers, Sequences, FiniteSets, TLC

VARIABLES
    locationCreated,   \* DatasetStorageLocation.locationCreated, per location
    buckets,           \* the objects of every S3 bucket: bucket -> set of [Key, Body]
    fs,                \* the blueprint directory: app.py and code.zip
    last               \* the record of the last operation executed

vars == <<locationCreated, buckets, fs, last>>

----------------------------------------------------------------------------
(* Python values and exceptions *)

PyNone == [t |-> "None", v |-> <<>>]
PyStr(s) == [t |-> "str", v |-> s]
PyObj(kind, fields) == [t |-> kind, v |-> fields]

\* An exception object: its class and the expression that raised it.
Exc(type, at) == [type |-> type, at |-> at]

\* The classes an `except Exception` clause catches, and those `except ClientError` does.
ExceptionClasses == {"Exception", "ClientError", "TypeError", "AttributeError",
                     "NameError", "ObjectNotFound", "OSError"}
ClientErrorClasses == {"ClientError"}

\* One request or call a handler issued.
Ev(api, params) == [api |-> api, params |-> params]

\* The result of running a piece of code: the requests issued, the exceptions its
\* except clauses caught, the exception it raised (<<>> when none), its value.
Res(trace, caught, raised, value) ==
    [trace |-> trace, caught |-> caught, raised |-> raised, value |-> value]

Raised(r) == r.raised # <<>>

\* Python's binding of a call's arguments to a signature: the parameters without a
\* default that the call leaves out, and the keywords the signature does not have.
Missing(required, args) == required \ DOMAIN args
Unexpected(params, args) == DOMAIN args \ params
Binds(params, required, args) ==
    Missing(required, args) = {} /\ Unexpected(params, args) = {}

\* How the AWS side answers the requests of one call.
Faults == {"none", "ClientError", "Exception"}
\* A call whose session fails issues no request, so only its STS fault matters.
AwsEnv == {e \in [sts : Faults, api : Faults] : e.sts # "none" => e.api = "none"}

----------------------------------------------------------------------------
(* The persisted storage locations *)

LocationUris == {"loc-1", "loc-2"}

Location(uri) ==
    IF uri = "loc-1"
    THEN [locationUri |-> "loc-1", AWSAccountId |-> "111122223333",
          region |-> "eu-west-1", S3BucketName |-> "bucket-a", S3Prefix |-> "raw"]
    ELSE [locationUri |-> "loc-2", AWSAccountId |-> "",
          region |-> "us-east-1", S3BucketName |-> "bucket-b", S3Prefix |-> "curated/2023"]

BucketNames == {Location(u).S3BucketName : u \in LocationUris}
Bodies == {"", "data"}

\* Task.targetUri: a persisted location, or a uri nothing is stored under.
TargetUris == LocationUris \cup {"loc-gone"}

\* What the missing lookup does for a uri nothing is stored under.
AbsentModes == {"raise", "None"}

----------------------------------------------------------------------------
(* Sessions, clients and requests *)

\* SessionHelper.remote_session: assumes the pivot role of the account over STS.
remote_session(accountid, env) ==
    IF env.sts # "none"
    THEN Res(<<Ev("sts.assume_role", [account |-> accountid])>>, <<>>,
             <<Exc(env.sts, "SessionHelper.remote_session")>>, PyNone)
    ELSE Res(<<Ev("sts.assume_role", [account |-> accountid])>>, <<>>, <<>>,
             PyObj("session", [kind |-> "remote", account |-> accountid]))

\* SessionHelper.get_session: the session of the central account.
get_session ==
    Res(<<Ev("get_session", [account |-> "central"])>>, <<>>, <<>>,
        PyObj("session", [kind |-> "central", account |-> "central"]))

\* session.client(service, region_name=region)
session_client(s, service, region) ==
    IF Raised(s)
    THEN s
    ELSE Res(s.trace \o <<Ev("session.client", [service |-> service, region |-> region])>>,
             <<>>, <<>>,
             PyObj("client", [service |-> service, region |-> region, session |-> s.value.v]))

\* def client(account_id, region, client_type, config): no parameter has a default.
S3_client_params == {"account_id", "region", "client_type", "config"}

S3_client(args, env) ==
    IF ~Binds(S3_client_params, S3_client_params, args)
    THEN Res(<<>>, <<>>, <<Exc("TypeError", "S3.client")>>, PyNone)
    ELSE IF args.account_id # ""
         THEN session_client(remote_session(args.account_id, env), args.client_type, args.region)
         ELSE session_client(get_session, "s3", args.region)

\* The operations a boto3 client of a service has.
ServiceApis(service) ==
    CASE service = "s3" ->
            {"put_object", "put_bucket_policy", "get_bucket_policy", "get_bucket_acl",
             "generate_presigned_post", "generate_presigned_url"}
      [] service = "s3control" ->
            {"get_access_point", "create_access_point", "delete_access_point",
             "get_access_point_policy", "put_access_point_policy"}
      [] service = "athena" -> {"get_work_group"}
      [] OTHER -> {}

\* One request over a client: the AWS side accepts it or answers with an error.
AwsCall(client, api, params, env, response) ==
    IF api \notin ServiceApis(client.v.service)
    THEN Res(<<>>, <<>>, <<Exc("AttributeError", api)>>, PyNone)
    ELSE IF env.api # "none"
         THEN Res(<<Ev(api, params)>>, <<>>, <<Exc(env.api, api)>>, PyNone)
         ELSE Res(<<Ev(api, params)>>, <<>>, <<>>, response)

\* a; b -- b runs only when a did not raise.
Then(a, b) ==
    IF Raised(a) THEN a
    ELSE Res(a.trace \o b.trace, a.caught \o b.caught, b.raised, b.value)

\* A handler that logs the failure and returns instead of raising it again.
LogAndReraise_swallow(r) == Res(r.trace, r.caught \o r.raised, <<>>, PyNone)

\* except Exception as e: log; raise e
LogAndReraise(r) == Res(r.trace, r.caught \o r.raised, r.raised, PyNone)

\* A lookup that logs the failure and raises it again.
LogAndReturnNone_reraise(r) == Res(r.trace, r.caught \o r.raised, r.raised, PyNone)

\* except Exception as e: log; return None
LogAndReturnNone(r) == Res(r.trace, r.caught \o r.raised, <<>>, PyNone)

\* return value
Return(r, value) == Res(r.trace, r.caught, <<>>, value)

\* S3's PutObject: the object under the key is created or replaced.
PutObject(objects, key, body) ==
    {o \in objects : o.Key # key} \cup {[Key |-> key, Body |-> body]}

----------------------------------------------------------------------------
(* S3.create_bucket_prefix and the 's3.prefix.create' handler *)

\* A handler's result together with the state it leaves.
Out(res, created, bkts) == [res |-> res, created |-> created, buckets |-> bkts]

\* A variant that sets the flag before the request is known to have succeeded.
create_bucket_prefix_flag_first(location, created, bkts, env) ==
    IF location.t = "None"
    THEN Out(Res(<<>>, <<Exc("AttributeError", "location.AWSAccountId")>>,
                 <<Exc("AttributeError", "location.locationUri")>>, PyNone),
             created, bkts)
    ELSE LET loc == location.v
             s3cli == S3_client([account_id |-> loc.AWSAccountId, region |-> loc.region,
                                 client_type |-> "s3"], env)
             key == loc.S3Prefix \o "/"
             request == [Bucket |-> loc.S3BucketName, Body |-> "", Key |-> key]
             response == Then(s3cli, AwsCall(s3cli.value, "put_object", request, env,
                                             PyObj("dict", [ETag |-> "etag"])))
         IN IF Raised(response)
            THEN Out(LogAndReraise(response),
                     [created EXCEPT ![loc.locationUri] = TRUE], bkts)
            ELSE Out(Return(response, PyNone),
                     [created EXCEPT ![loc.locationUri] = TRUE],
                     [bkts EXCEPT ![loc.S3BucketName] = PutObject(@, key, "")])

create_bucket_prefix(location, created, bkts, env) ==
    IF location.t = "None"
    THEN \* location.AWSAccountId raises; the except clause formats
         \* location.locationUri into its message and raises in turn.
         Out(Res(<<>>, <<Exc("AttributeError", "location.AWSAccountId")>>,
                 <<Exc("AttributeError", "location.locationUri")>>, PyNone),
             created, bkts)
    ELSE LET loc == location.v
             accountid == loc.AWSAccountId
             region == loc.region
             s3cli == S3_client([account_id |-> accountid, region |-> region,
                                 client_type |-> "s3"], env)
             key == loc.S3Prefix \o "/"
             request == [Bucket |-> loc.S3BucketName, Body |-> "", Key |-> key]
             response == Then(s3cli, AwsCall(s3cli.value, "put_object", request, env,
                                             PyObj("dict", [ETag |-> "etag"])))
         IN IF Raised(response)
            THEN Out(LogAndReraise(response), created, bkts)
            ELSE Out(Return(response, PyNone),
                     [created EXCEPT ![loc.locationUri] = TRUE],
                     [bkts EXCEPT ![loc.S3BucketName] = PutObject(@, key, "")])

\* db.api.DatasetStorageLocation.get_location_by_uri: the stored location, or a
\* hard failure when nothing is stored under the uri.
get_location_by_uri(uri, absent) ==
    IF uri \in LocationUris
    THEN Res(<<Ev("get_location_by_uri", [uri |-> uri])>>, <<>>, <<>>,
             PyObj("location", Location(uri)))
    ELSE IF absent = "raise"
         THEN Res(<<Ev("get_location_by_uri", [uri |-> uri])>>, <<>>,
                  <<Exc("ObjectNotFound", "get_location_by_uri")>>, PyNone)
         ELSE Res(<<Ev("get_location_by_uri", [uri |-> uri])>>, <<>>, <<>>, PyNone)

\* A variant that treats a target that does not resolve as nothing to do.
create_dataset_location_skip_missing(task, absent, created, bkts, env) ==
    LET location == get_location_by_uri(task.targetUri, absent)
    IN IF Raised(location) \/ location.value.t = "None"
       THEN Out(Res(location.trace, location.raised, <<>>, PyNone), created, bkts)
       ELSE LET prefix == create_bucket_prefix(location.value, created, bkts, env)
            IN IF Raised(prefix.res)
               THEN Out(Then(location, prefix.res), prefix.created, prefix.buckets)
               ELSE Out(Return(Then(location, prefix.res), location.value),
                        prefix.created, prefix.buckets)

\* A variant that tries the prefix a second time when the first attempt failed.
create_dataset_location_retry(task, absent, created, bkts, env) ==
    LET location == get_location_by_uri(task.targetUri, absent)
    IN IF Raised(location)
       THEN Out(location, created, bkts)
       ELSE LET first == create_bucket_prefix(location.value, created, bkts, env)
                again == create_bucket_prefix(location.value, first.created,
                                              first.buckets, env)
                prefix == IF Raised(first.res)
                          THEN Out(Res(first.res.trace \o again.res.trace,
                                       first.res.caught \o again.res.caught,
                                       again.res.raised, again.res.value),
                                   again.created, again.buckets)
                          ELSE first
            IN IF Raised(prefix.res)
               THEN Out(Then(location, prefix.res), prefix.created, prefix.buckets)
               ELSE Out(Return(Then(location, prefix.res), location.value),
                        prefix.created, prefix.buckets)

create_dataset_location(task, absent, created, bkts, env) ==
    LET location == get_location_by_uri(task.targetUri, absent)
    IN IF Raised(location)
       THEN Out(location, created, bkts)
       ELSE LET prefix == create_bucket_prefix(location.value, created, bkts, env)
            IN IF Raised(prefix.res)
               THEN Out(Then(location, prefix.res), prefix.created, prefix.buckets)
               ELSE Out(Return(Then(location, prefix.res), location.value),
                        prefix.created, prefix.buckets)

----------------------------------------------------------------------------
(* The other S3 operations: bucket policies and access points *)

create_bucket_policy(account_id, region, bucket_name, policy, env) ==
    LET s3cli == S3_client([account_id |-> account_id, region |-> region,
                            client_type |-> "s3"], env)
        request == [Bucket |-> bucket_name, Policy |-> policy,
                    ConfirmRemoveSelfBucketAccess |-> FALSE,
                    ExpectedBucketOwner |-> account_id]
        response == Then(s3cli, AwsCall(s3cli.value, "put_bucket_policy", request, env, PyNone))
    IN IF Raised(response) THEN LogAndReraise(response) ELSE Return(response, PyNone)

get_bucket_policy(account_id, region, bucket_name, env, stored) ==
    LET s3cli == S3_client([account_id |-> account_id, region |-> region,
                            client_type |-> "s3"], env)
        request == [Bucket |-> bucket_name, ExpectedBucketOwner |-> account_id]
        response == Then(s3cli, AwsCall(s3cli.value, "get_bucket_policy", request, env,
                                        PyObj("dict", [Policy |-> stored])))
    IN IF Raised(response)
       THEN LogAndReturnNone(response)
       ELSE Return(response, PyStr(response.value.v.Policy))

get_bucket_access_point_arn(account_id, region, access_point_name, env, stored) ==
    LET s3control == S3_client([account_id |-> account_id, region |-> region,
                                client_type |-> "s3control"], env)
        request == [AccountId |-> account_id, Name |-> access_point_name]
        access_point == Then(s3control,
                             AwsCall(s3control.value, "get_access_point", request, env,
                                     PyObj("dict", [AccessPointArn |-> stored])))
    IN IF Raised(access_point)
       THEN LogAndReturnNone(access_point)
       ELSE Return(access_point, PyStr(access_point.value.v.AccessPointArn))

create_bucket_access_point(account_id, region, bucket_name, access_point_name, env, stored) ==
    LET s3control == S3_client([account_id |-> account_id, region |-> region,
                                client_type |-> "s3control"], env)
        request == [AccountId |-> account_id, Name |-> access_point_name,
                    Bucket |-> bucket_name]
        access_point == Then(s3control,
                             AwsCall(s3control.value, "create_access_point", request, env,
                                     PyObj("dict", [AccessPointArn |-> stored])))
    IN IF Raised(access_point)
       THEN LogAndReraise(access_point)
       ELSE Return(access_point, PyStr(access_point.value.v.AccessPointArn))

delete_bucket_access_point(account_id, region, access_point_name, env) ==
    LET s3control == S3_client([account_id |-> account_id, region |-> region,
                                client_type |-> "s3control"], env)
        request == [AccountId |-> account_id, Name |-> access_point_name]
        response == Then(s3control,
                         AwsCall(s3control.value, "delete_access_point", request, env, PyNone))
    IN IF Raised(response) THEN LogAndReraise(response) ELSE Return(response, PyNone)

get_access_point_policy(account_id, region, access_point_name, env, stored) ==
    LET s3control == S3_client([account_id |-> account_id, region |-> region,
                                client_type |-> "s3control"], env)
        request == [AccountId |-> account_id, Name |-> access_point_name]
        response == Then(s3control,
                         AwsCall(s3control.value, "get_access_point_policy", request, env,
                                 PyObj("dict", [Policy |-> stored])))
    IN IF Raised(response)
       THEN LogAndReturnNone(response)
       ELSE Return(response, PyStr(response.value.v.Policy))

attach_access_point_policy(account_id, region, access_point_name, policy, env) ==
    LET s3control == S3_client([account_id |-> account_id, region |-> region,
                                client_type |-> "s3control"], env)
        request == [AccountId |-> account_id, Name |-> access_point_name,
                    Policy |-> policy]
        response == Then(s3control,
                         AwsCall(s3control.value, "put_access_point_policy", request, env, PyNone))
    IN IF Raised(response) THEN LogAndReraise(response) ELSE Return(response, PyNone)

----------------------------------------------------------------------------
(* S3.get_presigned_post *)

\* The names bound at the top level of handlers/s3.py (its imports, log, S3).
s3_globals ==
    {"logging", "ClientError", "Config", "db", "models", "Worker", "SessionHelper",
     "log", "S3"}

\* json.dumps of the response of generate_presigned_post
JsonDumps(response) ==
    "{\"url\": \"" \o response.url \o "\", \"fields\": {\"key\": \""
        \o response.fields.key \o "\"}}"

get_presigned_post(account_id, region, bucket, key, env) ==
    LET \* outside the try: S3.client(region=region, config=Config(...))
        s3_client == S3_client([region |-> region, config |-> "s3v4"], env)
        acl == Then(s3_client,
                    AwsCall(s3_client.value, "get_bucket_acl",
                            [Bucket |-> bucket, ExpectedBucketOwner |-> account_id], env,
                            PyObj("dict", [Owner |-> account_id])))
        response == Then(acl,
                         AwsCall(s3_client.value, "generate_presigned_post",
                                 [Bucket |-> bucket, Key |-> key, ExpiresIn |-> 15 * 60], env,
                                 PyObj("dict", [url |-> "https://" \o bucket \o ".s3.amazonaws.com/",
                                                fields |-> [key |-> key]])))
        dumped == IF Raised(response) THEN response
                  ELSE IF "json" \notin s3_globals
                       THEN Res(response.trace, response.caught,
                                <<Exc("NameError", "json")>>, PyNone)
                       ELSE Return(response, PyStr(JsonDumps(response.value.v)))
    IN IF Raised(s3_client) THEN s3_client
       ELSE IF Raised(dumped) /\ dumped.raised[1].type \in ClientErrorClasses
            THEN \* except ClientError as e: raise e
                 Res(dumped.trace, dumped.caught \o dumped.raised, dumped.raised, PyNone)
            ELSE dumped

----------------------------------------------------------------------------
(* S3.generate_access_point_policy_template *)

\* A variant whose s3:GetObject statement carries no condition on the caller.
generate_access_point_policy_template_open(principal_id, access_point_arn, s3_prefix) ==
    [Version |-> "2012-10-17",
     Statement |->
        <<[Sid |-> principal_id \o "0", Effect |-> "Allow", Principal |-> [AWS |-> "*"],
           Action |-> "s3:ListBucket", Resource |-> access_point_arn,
           Condition |-> [StringLike |-> ("s3:prefix" :> <<s3_prefix \o "/*">> @@
                                          "aws:userId" :> <<principal_id \o ":*">>)]],
          [Sid |-> principal_id \o "1", Effect |-> "Allow", Principal |-> [AWS |-> "*"],
           Action |-> "s3:GetObject",
           Resource |-> <<access_point_arn \o "/object/" \o s3_prefix \o "/*">>,
           Condition |-> [StringLike |-> <<>>]]>>]

generate_access_point_policy_template(principal_id, access_point_arn, s3_prefix) ==
    [Version |-> "2012-10-17",
     Statement |->
        <<[Sid |-> principal_id \o "0", Effect |-> "Allow", Principal |-> [AWS |-> "*"],
           Action |-> "s3:ListBucket", Resource |-> access_point_arn,
           Condition |-> [StringLike |-> ("s3:prefix" :> <<s3_prefix \o "/*">> @@
                                          "aws:userId" :> <<principal_id \o ":*">>)]],
          [Sid |-> principal_id \o "1", Effect |-> "Allow", Principal |-> [AWS |-> "*"],
           Action |-> "s3:GetObject",
           Resource |-> <<access_point_arn \o "/object/" \o s3_prefix \o "/*">>,
           Condition |-> [StringLike |-> ("aws:userId" :> <<principal_id \o ":*">>)]]>>]

----------------------------------------------------------------------------
(* Athena *)

Athena_client(account_id, region, role, env) ==
    session_client(remote_session(account_id, env), "athena", region)

get_workgroup(AwsAccountId, region, workgroup, role, env) ==
    LET client == Athena_client(AwsAccountId, region, role, env)
        response == Then(client,
                         AwsCall(client.value, "get_work_group", [WorkGroup |-> workgroup], env,
                                 PyObj("dict", [WorkGroup |-> [Name |-> workgroup]])))
    IN IF Raised(response)
       THEN IF response.raised[1].type \in ClientErrorClasses
            THEN \* except ClientError: log.  `workgroup` was not assigned and is
                 \* still the argument when `return workgroup` runs.
                 Res(response.trace, response.caught \o response.raised, <<>>,
                     PyStr(workgroup))
            ELSE response
       ELSE Return(response, response.value)

----------------------------------------------------------------------------
(* The tenant resolver update_ssm_parameter *)

\* os.getenv(name, default) on a variable that is set (<<v>>) or unset (<<>>).
Getenv(var, default) == IF var = <<>> THEN default ELSE var[1]

\* SessionHelper.get_account: the account of the caller, asked of STS.
get_account(env) ==
    IF env.sts # "none"
    THEN Res(<<Ev("sts.get_caller_identity", [account |-> "central"])>>, <<>>,
             <<Exc(env.sts, "SessionHelper.get_account")>>, PyNone)
    ELSE Res(<<Ev("sts.get_caller_identity", [account |-> "central"])>>, <<>>, <<>>,
             PyStr("999900001111"))

\* ParameterStoreManager.update_parameter: one write of the named parameter.
update_parameter(AwsAccountId, region, parameter_name, parameter_value, env) ==
    LET request == [AwsAccountId |-> AwsAccountId, region |-> region,
                    parameter_name |-> parameter_name,
                    parameter_value |-> parameter_value]
    IN IF env.api # "none"
       THEN Res(<<Ev("update_parameter", request)>>, <<>>,
                <<Exc(env.api, "update_parameter")>>, PyNone)
       ELSE Res(<<Ev("update_parameter", request)>>, <<>>, <<>>,
                PyObj("dict", [Version |-> 2]))

\* A variant whose parameter path leaves the environment out.
update_ssm_parameter_no_env(name, value, environ, env) ==
    LET current_account == get_account(env)
        parameter_name == "/dataall/quicksightmonitoring/" \o name
    IN Then(current_account,
            update_parameter(current_account.value.v, "eu-west-1",
                             parameter_name, value, env))

update_ssm_parameter(name, value, environ, env) ==
    LET current_account == get_account(env)
        region == "eu-west-1"
        parameter_name == "/dataall/" \o Getenv(environ, "local")
                              \o "/quicksightmonitoring/" \o name
        response == Then(current_account,
                         update_parameter(current_account.value.v, region,
                                          parameter_name, value, env))
    IN response

----------------------------------------------------------------------------
(* deploy/stacks/param_store_stack.py *)

\* aws_ssm.StringParameter(self, id, parameter_name=..., string_value=...)
StringParameter(id, parameter_name, string_value) ==
    [id |-> id, parameter_name |-> parameter_name, string_value |-> string_value]

\* The static methods the CDK class aws_ssm.StringParameter has.
StringParameterAttrs ==
    {"from_string_parameter_name", "from_string_parameter_attributes",
     "from_secure_string_parameter_attributes", "value_for_string_parameter",
     "value_for_typed_string_parameter_v2", "value_from_lookup"}

IdLength == 32

allowed_chars == "ABCDEFGHIJKLMNOPQRSTUVWXYZ" \o "abcdefghijklmnopqrstuvwxyz" \o "0123456789"

RECURSIVE JoinChoices(_, _)
JoinChoices(picks, n) ==
    IF n = 0 THEN ""
    ELSE JoinChoices(picks, n - 1) \o SubSeq(allowed_chars, picks[n], picks[n])

\* ''.join(random.choice(allowed_chars) for i in range(32)); picks are the
\* positions random.choice draws.
_generate_external_id(picks) == JoinChoices(picks, IdLength)

\* The external id the stack stores: the chain of lookups of lines 105-113.
external_id_value(en, cdk, picks) ==
    IF "value_for_string_paramete" \in StringParameterAttrs
    THEN [source |-> "ssm", text |-> "${ssm:/dataall/" \o en \o "/pivotRole/externalId}"]
    ELSE IF cdk.secret = "ok"
         THEN \* an ISecret object, not its value
              [source |-> "secret-object",
               text |-> "<Secret dataall-externalId-" \o en \o ">"]
         ELSE [source |-> "generated", text |-> _generate_external_id(picks)]

ParamStoreStack(en, custom_domain, enable_cw_canaries, quicksight_enabled, cdk, picks) ==
    LET resource_prefix == "dataall"
        shared_dashboard_sessions == "anonymous"
        pivot_role_name == "dataallPivotRole"
        p1 == <<StringParameter("ResourcePrefixParam" \o en,
                                "/dataall/" \o en \o "/resourcePrefix", resource_prefix)>>
        p2 == IF custom_domain.t # "None"
              THEN LET domain == custom_domain.v.hosted_zone_name
                   IN <<StringParameter("FrontendCustomDomain" \o en,
                                        "/dataall/" \o en \o "/frontend/custom_domain_name",
                                        domain),
                        StringParameter("UserGuideCustomDomain" \o en,
                                        "/dataall/" \o en \o "/userguide/custom_domain_name",
                                        "userguide." \o domain)>>
              ELSE <<>>
        p3 == IF enable_cw_canaries
              THEN <<StringParameter("CWCanariesEnv" \o en,
                                     "/dataall/" \o en \o "/canary/environment_account",
                                     "updateme(e.g: 1234xxxx)"),
                     StringParameter("CWCanariesRegion" \o en,
                                     "/dataall/" \o en \o "/canary/environment_region",
                                     "updateme(e.g: eu-west-1)")>>
              ELSE <<>>
        p4 == IF quicksight_enabled
              THEN <<StringParameter("QSVPCConnectionIdEnv" \o en,
                                     "/dataall/" \o en \o "/quicksightmonitoring/VPCConnectionId",
                                     "updateme"),
                     StringParameter("QSDashboardIdEnv" \o en,
                                     "/dataall/" \o en \o "/quicksightmonitoring/DashboardId",
                                     "updateme")>>
              ELSE <<>>
        p5 == <<StringParameter("dataallQuicksightConfiguration" \o en,
                                "/dataall/" \o en \o "/quicksight/sharedDashboardsSessions",
                                shared_dashboard_sessions),
                StringParameter("dataallCreationPivotRole" \o en,
                                "/dataall/" \o en \o "/pivotRole/enablePivotRoleAutoCreate",
                                "False"),
                StringParameter("dataallPivotRoleName" \o en,
                                "/dataall/" \o en \o "/pivotRole/pivotRoleName",
                                pivot_role_name)>>
        p6 == <<StringParameter("dataallExternalId" \o en,
                                "/dataall/" \o en \o "/pivotRole/externalId",
                                external_id_value(en, cdk, picks).text)>>
        declared == p1 \o p2 \o p3 \o p4 \o p5 \o p6
    IN Res([i \in 1..Len(declared) |-> Ev("StringParameter", declared[i])],
           <<>>, <<>>,
           PyObj("stack", [external_id |-> external_id_value(en, cdk, picks)]))

----------------------------------------------------------------------------
(* modules/omics/cdk/omics_stack.py *)

PipelineUris == {"pipe-1"}
OmicsTargets == PipelineUris \cup {"pipe-gone"}

Pipeline(uri) ==
    [OmicsPipelineUri |-> uri, name |-> "genomics", label |-> "Genomics",
     description |-> "variant calling", environmentUri |-> "env-1",
     S3InputBucket |-> "in-bucket", S3OutputBucket |-> "out-bucket"]

PipelineEnvironment(uri) ==
    [environmentUri |-> uri, name |-> "research", resourcePrefix |-> "dataall",
     AwsAccountId |-> "111122223333", region |-> "eu-west-1"]

\* What the class body of OmicsPipelineStack defines (lines 35-227), and what
\* the module defines after it at the top level (lines 230-321).
OmicsPipelineStack_attrs ==
    {"module_name", "get_engine", "get_target", "get_pipeline_environment",
     "get_env_group", "__init__"}
omics_stack_globals ==
    {"logging", "os", "shutil", "sagemaker", "ec2", "kms", "iam", "codecommit",
     "codebuild", "pipelines", "Stack", "CfnOutput", "Asset", "OmicsPipeline",
     "models", "EnvironmentGroup", "stack", "Engine", "get_engine", "Environment",
     "CDKNagUtil", "TagsUtil", "logger", "OmicsPipelineStack", "zip_directory",
     "cleanup_zip_directory", "write_cdk_app_file"}

\* The state of a construction under way: the steps completed, the exception
\* raised (<<>> while none), the blueprint directory, the values bound so far.
Ctx(trace, raised, files, value) ==
    [trace |-> trace, caught |-> <<>>, raised |-> raised, fs |-> files, value |-> value]

Fail(ctx, exc) == [ctx EXCEPT !.raised = <<exc>>]
Done(ctx, api, params) == [ctx EXCEPT !.trace = @ \o <<Ev(api, params)>>]

\* def get_engine(self): called with the keywords `kw`.
OmicsPipelineStack_get_engine(ctx, kw) ==
    IF Raised(ctx) THEN ctx
    ELSE IF ~Binds({"self"}, {"self"}, kw)
         THEN Fail(ctx, Exc("TypeError", "get_engine"))
         ELSE ctx

\* def get_target(self, target_uri): session.query(OmicsPipeline).get(target_uri)
OmicsPipelineStack_get_target(ctx, target_uri) ==
    LET engine == OmicsPipelineStack_get_engine(ctx, [self |-> "self"])
    IN IF Raised(engine) THEN engine
       ELSE IF target_uri \in PipelineUris
            THEN [Done(engine, "get_target", [uri |-> target_uri])
                     EXCEPT !.value = PyObj("pipeline", Pipeline(target_uri))]
            ELSE [Done(engine, "get_target", [uri |-> target_uri])
                     EXCEPT !.value = PyNone]

\* reading an attribute of what get_target returned
Attribute(ctx, attr) ==
    IF Raised(ctx) THEN ctx
    ELSE IF ctx.value.t = "None" THEN Fail(ctx, Exc("AttributeError", attr))
         ELSE ctx

\* def get_pipeline_environment(self, pipeline)
OmicsPipelineStack_get_pipeline_environment(ctx, pipeline, en) ==
    LET engine == OmicsPipelineStack_get_engine(ctx, [self |-> "self", envname |-> en])
    IN IF Raised(engine) THEN engine
       ELSE Done(engine, "get_pipeline_environment", [uri |-> pipeline.v.environmentUri])

\* def get_env_group(self, pipeline)
OmicsPipelineStack_get_env_group(ctx, pipeline) ==
    LET engine == OmicsPipelineStack_get_engine(ctx, [self |-> "self"])
    IN IF Raised(engine) THEN engine
       ELSE Done(engine, "get_env_group", [uri |-> pipeline.v.environmentUri])

\* OmicsPipelineStack.<name>: the lookup of an attribute on the class
ClassAttribute(ctx, name) ==
    IF Raised(ctx) THEN ctx
    ELSE IF name \notin OmicsPipelineStack_attrs
         THEN Fail(ctx, Exc("AttributeError", "OmicsPipelineStack." \o name))
         ELSE ctx

\* The text of app.py for a pipeline and its environment.
RenderApp(pipeline, environment) ==
    "pipeline_name=" \o pipeline.name \o ";pipeline_uri=" \o pipeline.OmicsPipelineUri
        \o ";environment_name=" \o environment.name
        \o ";environment_uri=" \o environment.environmentUri

\* def write_cdk_app_file(code_dir_path, pipeline, environment): open(.., 'w')
\* empties app.py before textwrap.dedent(app) is evaluated.
write_cdk_app_file(ctx, pipeline, environment) ==
    IF Raised(ctx) THEN ctx
    ELSE IF "textwrap" \notin omics_stack_globals
         THEN Fail([ctx EXCEPT !.fs.app_py = <<"">>], Exc("NameError", "textwrap"))
         ELSE Done([ctx EXCEPT !.fs.app_py = <<RenderApp(pipeline, environment)>>],
                   "write_cdk_app_file", [uri |-> pipeline.OmicsPipelineUri])

\* def cleanup_zip_directory(path)
cleanup_zip_directory(ctx) ==
    IF Raised(ctx) THEN ctx
    ELSE IF ctx.fs.code_zip # <<>>
         THEN Done([ctx EXCEPT !.fs.code_zip = <<>>], "cleanup_zip_directory",
                   [removed |-> TRUE])
         ELSE Done(ctx, "cleanup_zip_directory", [removed |-> FALSE])

\* def zip_directory(path): a failure of make_archive or move is logged only.
zip_directory(ctx, zipOk) ==
    IF Raised(ctx) THEN ctx
    ELSE IF zipOk
         THEN Done([ctx EXCEPT !.fs.code_zip = <<[app_py |-> ctx.fs.app_py]>>],
                   "zip_directory", [built |-> TRUE])
         ELSE [Done(ctx, "zip_directory", [built |-> FALSE])
                  EXCEPT !.caught = @ \o <<Exc("OSError", "shutil.make_archive")>>]

\* Asset(scope=self, id=..., path=f'{code_dir_path}/code.zip')
CodeAsset(ctx) ==
    IF Raised(ctx) THEN ctx
    ELSE IF ctx.fs.code_zip = <<>>
         THEN Fail(ctx, Exc("Exception", "Asset"))
         ELSE Done(ctx, "Asset", [archive |-> ctx.fs.code_zip[1]])

\* a CDK construct that takes the code asset
Construct(ctx, name) ==
    IF Raised(ctx) THEN ctx
    ELSE Done(ctx, name, [archive |-> ctx.fs.code_zip[1]])

OmicsPipelineStack_init(target_uri, files, en, zipOk) ==
    LET c0 == Ctx(<<>>, <<>>, files, PyNone)
        label == Attribute(OmicsPipelineStack_get_target(c0, target_uri), "label")
        description == Attribute(OmicsPipelineStack_get_target(label, target_uri),
                                 "description")
        super == IF Raised(description) THEN description
                 ELSE Done(description, "Stack.__init__", [uri |-> target_uri])
        pipeline == OmicsPipelineStack_get_target(super, target_uri)
        pipeline_environment ==
            OmicsPipelineStack_get_pipeline_environment(pipeline, pipeline.value, en)
        env_group == OmicsPipelineStack_get_env_group(pipeline_environment, pipeline.value)
        written == IF Raised(ClassAttribute(env_group, "write_cdk_app_file"))
                   THEN ClassAttribute(env_group, "write_cdk_app_file")
                   ELSE write_cdk_app_file(env_group, pipeline.value.v,
                                           PipelineEnvironment(pipeline.value.v.environmentUri))
        cleaned == cleanup_zip_directory(ClassAttribute(written, "cleanup_zip_directory"))
        zipped == zip_directory(ClassAttribute(cleaned, "zip_directory"), zipOk)
        code_asset == CodeAsset(zipped)
        code_repo == Construct(code_asset, "Repository")
        codepipeline == Construct(code_repo, "CodePipeline")
    IN codepipeline

----------------------------------------------------------------------------
(* The inputs the operations are called with *)

AccountIds == {"111122223333", ""}
Workgroups == {"primary"}
UploadKeys == {"upload/data.csv"}
PrincipalIds == {"AROAEXAMPLEROLE", "AIDAEXAMPLEUSER"}
AccessPointArns == {"arn:aws:s3:eu-west-1:111122223333:accesspoint/ap-1"}
ParameterNames == {"VPCConnectionId", "DashboardId"}
EnvNames == {"dev", "prod"}
\* The process environment variable `envname`: unset, or set.
Environs == {<<>>, <<"dev">>}
CustomDomains == {PyNone, PyObj("dict", [hosted_zone_name |-> "example.com"])}
\* What the CDK lookups of the external id find.
\* The external id stored in SSM before the synthesis (<<>> when there is none)
\* and the value of the secret dataall-externalId-{envname}.
StoredExternalId == "q7RkZp2LxV9tYb4NwE1sHc8JmU5aGd3F"
SecretExternalId == "M4nB8vC2xZ6lK0jH3gF7dS1aP9oI5uYt"
CdkLookups == [ssm : {<<>>, <<StoredExternalId>>}, secret : {"ok", "raise"}]
\* The positions random.choice draws for the 32 characters.
Picks == {[i \in 1..IdLength |-> 1],
          [i \in 1..IdLength |-> 1 + ((7 * i) % Len(allowed_chars))]}
NoFault == [sts |-> "none", api |-> "none"]

\* The blueprint directory before a construction: a fresh checkout, or the
\* files an earlier construction left.
StaleApp == "pipeline_name=old"
Directories == {[app_py |-> <<>>, code_zip |-> <<>>],
                [app_py |-> <<StaleApp>>, code_zip |-> <<[app_py |-> <<StaleApp>>]>>]}

\* The key of the prefix object in a bucket.
PrefixKey(b) ==
    LET u == CHOOSE x \in LocationUris : Location(x).S3BucketName = b
    IN Location(u).S3Prefix \o "/"

\* What the buckets hold to begin with: nothing, or under each prefix key an
\* object with the given body.
StartingBuckets ==
    {[b \in BucketNames |-> {}]} \cup
    {[b \in BucketNames |-> {[Key |-> PrefixKey(b), Body |-> body]}] : body \in Bodies}

----------------------------------------------------------------------------
(* The state machine *)

Record(op, input, env, res) ==
    [op |-> op, input |-> input, env |-> env,
     pre |-> [created |-> locationCreated, buckets |-> buckets, fs |-> fs],
     trace |-> res.trace, caught |-> res.caught, raised |-> res.raised,
     value |-> res.value]

Init ==
    /\ locationCreated \in [LocationUris -> BOOLEAN]
    /\ buckets \in StartingBuckets
    /\ fs \in Directories
    /\ last = [op |-> "none", input |-> <<>>, env |-> NoFault,
               pre |-> [created |-> locationCreated, buckets |-> buckets, fs |-> fs],
               trace |-> <<>>, caught |-> <<>>, raised |-> <<>>, value |-> PyNone]

CreateDatasetLocation ==
    \E uri \in TargetUris, absent \in AbsentModes, env \in AwsEnv :
        /\ uri \in LocationUris => absent = "raise"
        /\ LET out == create_dataset_location([targetUri |-> uri], absent, locationCreated, buckets, env)
           IN /\ last' = Record("create_dataset_location", [targetUri |-> uri, absent |-> absent], env, out.res)
              /\ locationCreated' = out.created
              /\ buckets' = out.buckets
              /\ UNCHANGED fs

CreateBucketPrefix ==
    \E uri \in LocationUris, env \in AwsEnv :
        /\ LET out == create_bucket_prefix(PyObj("location", Location(uri)), locationCreated, buckets, env)
           IN /\ last' = Record("create_bucket_prefix", [locationUri |-> uri], env, out.res)
              /\ locationCreated' = out.created
              /\ buckets' = out.buckets
              /\ UNCHANGED fs

CreateBucketPolicy ==
    \E account_id \in AccountIds, env \in AwsEnv :
        /\ last' = Record("create_bucket_policy", [account_id |-> account_id], env,
             create_bucket_policy(account_id, "eu-west-1", "bucket-a", "{policy}", env))
        /\ UNCHANGED <<locationCreated, buckets, fs>>

GetBucketPolicy ==
    \E account_id \in AccountIds, env \in AwsEnv :
        /\ last' = Record("get_bucket_policy", [account_id |-> account_id, stored |-> "{policy}"], env,
             get_bucket_policy(account_id, "eu-west-1", "bucket-a", env, "{policy}"))
        /\ UNCHANGED <<locationCreated, buckets, fs>>

GetBucketAccessPointArn ==
    \E account_id \in AccountIds, env \in AwsEnv :
        /\ last' = Record("get_bucket_access_point_arn",
             [account_id |-> account_id, stored |-> "arn:aws:s3:ap-1"], env,
             get_bucket_access_point_arn(account_id, "eu-west-1", "ap-1", env,
                                         "arn:aws:s3:ap-1"))
        /\ UNCHANGED <<locationCreated, buckets, fs>>

CreateBucketAccessPoint ==
    \E account_id \in AccountIds, env \in AwsEnv :
        /\ last' = Record("create_bucket_access_point",
             [account_id |-> account_id, stored |-> "arn:aws:s3:ap-1"], env,
             create_bucket_access_point(account_id, "eu-west-1", "bucket-a", "ap-1", env,
                                        "arn:aws:s3:ap-1"))
        /\ UNCHANGED <<locationCreated, buckets, fs>>

DeleteBucketAccessPoint ==
    \E account_id \in AccountIds, env \in AwsEnv :
        /\ last' = Record("delete_bucket_access_point", [account_id |-> account_id], env,
             delete_bucket_access_point(account_id, "eu-west-1", "ap-1", env))
        /\ UNCHANGED <<locationCreated, buckets, fs>>

GetAccessPointPolicy ==
    \E account_id \in AccountIds, env \in AwsEnv :
        /\ last' = Record("get_access_point_policy",
             [account_id |-> account_id, stored |-> "{policy}"], env,
             get_access_point_policy(account_id, "eu-west-1", "ap-1", env, "{policy}"))
        /\ UNCHANGED <<locationCreated, buckets, fs>>

AttachAccessPointPolicy ==
    \E account_id \in AccountIds, env \in AwsEnv :
        /\ last' = Record("attach_access_point_policy", [account_id |-> account_id], env,
             attach_access_point_policy(account_id, "eu-west-1", "ap-1", "{policy}", env))
        /\ UNCHANGED <<locationCreated, buckets, fs>>

GetWorkgroup ==
    \E workgroup \in Workgroups, env \in AwsEnv :
        /\ last' = Record("get_workgroup", [workgroup |-> workgroup], env,
             get_workgroup("111122223333", "eu-west-1", workgroup, PyNone, env))
        /\ UNCHANGED <<locationCreated, buckets, fs>>

UpdateSsmParameter ==
    \E name \in ParameterNames, environ \in Environs, env \in AwsEnv :
        /\ last' = Record("update_ssm_parameter", [name |-> name, environ |-> environ], env,
             update_ssm_parameter(name, "value", environ, env))
        /\ UNCHANGED <<locationCreated, buckets, fs>>

GetPresignedPost ==
    \E account_id \in AccountIds \ {""}, key \in UploadKeys, env \in AwsEnv :
        /\ last' = Record("get_presigned_post",
                          [account_id |-> account_id, bucket |-> "bucket-a", key |-> key], env,
                          get_presigned_post(account_id, "eu-west-1", "bucket-a", key, env))
        /\ UNCHANGED <<locationCreated, buckets, fs>>

GenerateAccessPointPolicyTemplate ==
    \E principal_id \in PrincipalIds, access_point_arn \in AccessPointArns,
       s3_prefix \in {Location(u).S3Prefix : u \in LocationUris} :
        /\ last' = Record("generate_access_point_policy_template",
                          [principal_id |-> principal_id,
                           access_point_arn |-> access_point_arn,
                           s3_prefix |-> s3_prefix], NoFault,
                          Res(<<>>, <<>>, <<>>,
                              PyObj("dict", generate_access_point_policy_template(
                                                principal_id, access_point_arn, s3_prefix))))
        /\ UNCHANGED <<locationCreated, buckets, fs>>

SynthParamStoreStack ==
    \E en \in EnvNames, custom_domain \in CustomDomains, enable_cw_canaries \in BOOLEAN,
       quicksight_enabled \in BOOLEAN, cdk \in CdkLookups, picks \in Picks :
        /\ (cdk.secret = "ok" \/ cdk.ssm # <<>>) => picks[IdLength] = 1
        /\ last' = Record("ParamStoreStack",
             [envname |-> en, custom_domain |-> custom_domain,
              enable_cw_canaries |-> enable_cw_canaries,
              quicksight_enabled |-> quicksight_enabled, cdk |-> cdk], NoFault,
             ParamStoreStack(en, custom_domain, enable_cw_canaries, quicksight_enabled,
                             cdk, picks))
        /\ UNCHANGED <<locationCreated, buckets, fs>>

SynthOmicsPipelineStack ==
    \E target_uri \in OmicsTargets, environ \in Environs, zipOk \in BOOLEAN :
        LET ctx == OmicsPipelineStack_init(target_uri, fs, Getenv(environ, "local"), zipOk)
        IN /\ last' = Record("OmicsPipelineStack",
                             [target_uri |-> target_uri, environ |-> environ,
                              zipOk |-> zipOk], NoFault, ctx)
           /\ fs' = ctx.fs
           /\ UNCHANGED <<locationCreated, buckets>>

Next ==
    \/ CreateDatasetLocation
    \/ CreateBucketPrefix
    \/ CreateBucketPolicy
    \/ GetBucketPolicy
    \/ GetBucketAccessPointArn
    \/ CreateBucketAccessPoint
    \/ DeleteBucketAccessPoint
    \/ GetAccessPointPolicy
    \/ AttachAccessPointPolicy
    \/ GetWorkgroup
    \/ GetPresignedPost
    \/ GenerateAccessPointPolicyTemplate
    \/ UpdateSsmParameter
    \/ SynthParamStoreStack
    \/ SynthOmicsPipelineStack

Spec == Init /\ [][Next]_vars

----------------------------------------------------------------------------
(* Properties *)

\* How many requests of one kind the last operation issued.
Count(trace, api) == Cardinality({i \in DOMAIN trace : trace[i].api = api})

\* The events that obtain a session or a client, and the requests to AWS.
SessionApis == {"sts.assume_role", "get_session", "session.client"}
RequestApis == ServiceApis("s3") \cup ServiceApis("s3control") \cup ServiceApis("athena")
AwsEvents(trace) == {i \in DOMAIN trace : trace[i].api \in SessionApis \cup RequestApis}

HasPrefix(str, prefix) ==
    Len(str) >= Len(prefix) /\ SubSeq(str, 1, Len(prefix)) = prefix

MutatingOps == {"create_bucket_prefix", "create_bucket_policy",
                "create_bucket_access_point", "delete_bucket_access_point",
                "attach_access_point_policy"}
ReadOps == {"get_bucket_policy", "get_bucket_access_point_arn",
            "get_access_point_policy"}

\* C1: a mutating S3 operation whose client or request failed does not return
\* normally: the exception it caught is the exception its caller receives.
C1_WriteFailuresPropagate ==
    last.op \in MutatingOps =>
        /\ last.caught # <<>> => last.raised = last.caught
        /\ last.raised # <<>> => last.value.t = "None"

\* A mutating operation has failed on its client and raised that failure.
C1_Witness ==
    /\ last.op = "create_bucket_access_point"
    /\ last.caught = <<Exc("TypeError", "S3.client")>>
    /\ last.raised = <<Exc("TypeError", "S3.client")>>

\* C2: a read-only S3 lookup never raises; a failure of the client or of the
\* request gives None, and a lookup that did not fail gives the looked-up field.
C2_ReadFailuresGiveNone ==
    last.op \in ReadOps =>
        /\ last.raised = <<>>
        /\ last.caught # <<>> => last.value.t = "None"
        /\ last.caught = <<>> =>
               last.value.t = "str" /\ last.value.v = last.input.stored

\* A lookup has failed and returned None.
C2_Witness ==
    /\ last.op = "get_bucket_policy"
    /\ last.caught # <<>>
    /\ last.raised = <<>>
    /\ last.value.t = "None"

\* C3: Athena.get_workgroup does not raise and returns None whenever the lookup
\* failed (client or request, ClientError or not), and returns the response
\* of get_work_group only when the lookup succeeded.
C3_WorkgroupFailureGivesNone ==
    last.op = "get_workgroup" =>
        /\ last.raised = <<>>
        /\ (last.env.sts # "none" \/ last.env.api # "none") => last.value.t = "None"
        /\ last.value.t = "dict" => last.env = NoFault

\* C4: the 's3.prefix.create' handler obtains no session and issues no request
\* unless the target resolved; a target that does not resolve ends the handler
\* in failure after one lookup and nothing else.
C4_NoAwsBeforeResolution ==
    last.op = "create_dataset_location" =>
        /\ AwsEvents(last.trace) # {} => last.input.targetUri \in LocationUris
        /\ last.input.targetUri \notin LocationUris =>
               /\ last.raised # <<>>
               /\ AwsEvents(last.trace) = {}
               /\ Count(last.trace, "get_location_by_uri") = 1
               /\ last.trace = <<Ev("get_location_by_uri",
                                    [uri |-> last.input.targetUri])>>

\* The handler has run on a target that does not resolve and has failed.
C4_Witness ==
    /\ last.op = "create_dataset_location"
    /\ last.input.targetUri \notin LocationUris
    /\ last.input.absent = "None"
    /\ last.raised # <<>>

\* C5: handling one 's3.prefix.create' task is one attempt: at most one lookup,
\* at most one client, at most one put_object, and a failed attempt is raised
\* to the dispatcher after that one attempt.
C5_SingleAttempt ==
    last.op = "create_dataset_location" =>
        /\ Count(last.trace, "put_object") <= 1
        /\ Count(last.trace, "session.client") <= 1
        /\ Count(last.trace, "get_location_by_uri") <= 1
        /\ Len(last.caught) <= 1
        /\ last.caught # <<>> => last.raised # <<>>

\* The handler has run on a stored location, failed once and raised.
C5_Witness ==
    /\ last.op = "create_dataset_location"
    /\ last.input.targetUri \in LocationUris
    /\ Len(last.caught) = 1
    /\ last.raised = last.caught

\* The position of the first event of a kind in a trace (0 when there is none).
First(trace, api) ==
    IF \E i \in DOMAIN trace : trace[i].api = api
    THEN CHOOSE i \in DOMAIN trace :
             trace[i].api = api /\ \A j \in 1..(i - 1) : trace[j].api # api
    ELSE 0

\* C6: with a target that resolves and an AWS side that accepts every request,
\* create_dataset_location obtains the client of the location's account (a
\* cross-account session when AWSAccountId is not empty, the central session
\* otherwise), puts the empty object S3Prefix + '/' into the location's bucket
\* and returns the location, whose locationCreated is True.
C6_HappyPathCreatesPrefix ==
    (/\ last.op = "create_dataset_location"
     /\ last.input.targetUri \in LocationUris
     /\ last.env = NoFault) =>
        LET loc == Location(last.input.targetUri)
        IN /\ last.raised = <<>>
           /\ last.value.t = "location"
           /\ last.value.v.locationUri = loc.locationUri
           /\ locationCreated[loc.locationUri]
           /\ Count(last.trace, "sts.assume_role") = (IF loc.AWSAccountId # "" THEN 1 ELSE 0)
           /\ Count(last.trace, "get_session") = (IF loc.AWSAccountId # "" THEN 0 ELSE 1)
           /\ \E i \in DOMAIN last.trace :
                  /\ last.trace[i].api = "put_object"
                  /\ last.trace[i].params = [Bucket |-> loc.S3BucketName, Body |-> "",
                                             Key |-> loc.S3Prefix \o "/"]

\* C7: create_bucket_prefix ensures the prefix exists: against an AWS side that
\* accepts every request it succeeds when the key S3Prefix + '/' is already
\* there, and run on the state a run of it leaves (the empty object under the
\* key, the flag set) it succeeds and leaves that state as it is.
C7_EnsureExists ==
    (/\ last.op = "create_bucket_prefix"
     /\ last.env = NoFault) =>
        LET loc == Location(last.input.locationUri)
            key == loc.S3Prefix \o "/"
            before == last.pre.buckets[loc.S3BucketName]
        IN /\ (\E o \in before : o.Key = key) => last.raised = <<>>
           /\ ([Key |-> key, Body |-> ""] \in before /\ last.pre.created[loc.locationUri]) =>
                  /\ last.raised = <<>>
                  /\ buckets = last.pre.buckets
                  /\ locationCreated = last.pre.created

\* C8: the construction of an OmicsPipelineStack for a stored pipeline, with a
\* zip step that works, completes, and its steps come in this order: the
\* pipeline and its environment are read, app.py is written, an existing
\* code.zip is removed, the directory is zipped, and only then the Asset, the
\* repository and the CodePipeline are created; the archive handed over holds
\* the app.py rendered for this pipeline.
C8_ConstructionOrder ==
    (/\ last.op = "OmicsPipelineStack"
     /\ last.input.target_uri \in PipelineUris
     /\ last.input.zipOk) =>
        LET t == last.trace
            pipeline == Pipeline(last.input.target_uri)
        IN /\ last.raised = <<>>
           /\ 0 < First(t, "get_target")
           /\ First(t, "get_target") < First(t, "write_cdk_app_file")
           /\ 0 < First(t, "get_pipeline_environment")
           /\ First(t, "get_pipeline_environment") < First(t, "write_cdk_app_file")
           /\ First(t, "write_cdk_app_file") < First(t, "cleanup_zip_directory")
           /\ First(t, "cleanup_zip_directory") < First(t, "zip_directory")
           /\ First(t, "zip_directory") < First(t, "Asset")
           /\ First(t, "Asset") < First(t, "Repository")
           /\ First(t, "Repository") < First(t, "CodePipeline")
           /\ First(t, "CodePipeline") = Len(t)
           /\ t[Len(t)].params.archive.app_py =
                  <<RenderApp(pipeline, PipelineEnvironment(pipeline.environmentUri))>>

\* C9: every StringParameter a ParamStoreStack declares, whatever its options,
\* is named '/dataall/' + envname + '/...'; and update_ssm_parameter writes
\* one parameter at most, named '/dataall/' + envname + '/quicksightmonitoring/'
\* + name, envname being the environment variable or 'local' when it is unset.
C9_ParameterPaths ==
    /\ last.op = "ParamStoreStack" =>
           /\ Len(last.trace) >= 5
           /\ \A i \in DOMAIN last.trace :
                  /\ last.trace[i].api = "StringParameter"
                  /\ HasPrefix(last.trace[i].params.parameter_name,
                               "/dataall/" \o last.input.envname \o "/")
                  /\ Len(last.trace[i].params.parameter_name) >
                         Len("/dataall/" \o last.input.envname \o "/")
    /\ last.op = "update_ssm_parameter" =>
           /\ Count(last.trace, "update_parameter") <= 1
           /\ last.raised = <<>> => Count(last.trace, "update_parameter") = 1
           /\ \A i \in DOMAIN last.trace :
                  last.trace[i].api = "update_parameter" =>
                      last.trace[i].params.parameter_name =
                          "/dataall/" \o (IF last.input.environ = <<>> THEN "local"
                                          ELSE last.input.environ[1])
                              \o "/quicksightmonitoring/" \o last.input.name

\* The resolver has written a parameter with the environment variable unset.
C9_Witness ==
    /\ last.op = "update_ssm_parameter"
    /\ last.input.environ = <<>>
    /\ last.raised = <<>>
    /\ Count(last.trace, "update_parameter") = 1

\* C10: locationCreated follows the outcome of create_bucket_prefix: the flag of
\* a location changes only when the put_object of its key S3Prefix + '/' into
\* its bucket succeeded, and a create_bucket_prefix that fails, at the client
\* or at put_object, leaves every flag at the value it had before the call.
C10_FlagTracksOutcome ==
    last.op \in {"create_bucket_prefix", "create_dataset_location"} =>
        /\ last.raised # <<>> => locationCreated = last.pre.created
        /\ \A u \in LocationUris :
               locationCreated[u] # last.pre.created[u] =>
                   /\ locationCreated[u]
                   /\ last.raised = <<>>
                   /\ \E i \in DOMAIN last.trace :
                          /\ last.trace[i].api = "put_object"
                          /\ last.trace[i].params.Bucket = Location(u).S3BucketName
                          /\ last.trace[i].params.Key = Location(u).S3Prefix \o "/"
                   /\ [Key |-> Location(u).S3Prefix \o "/", Body |-> ""]
                          \in buckets[Location(u).S3BucketName]

\* create_bucket_prefix has failed on a location whose flag was not set, and
\* the flag is still not set.
C10_Witness ==
    /\ last.op = "create_bucket_prefix"
    /\ last.raised # <<>>
    /\ ~last.pre.created[last.input.locationUri]
    /\ ~locationCreated[last.input.locationUri]

\* C11: get_presigned_post generates a presigned POST only after get_bucket_acl
\* with ExpectedBucketOwner = account_id succeeded on the bucket; when that
\* check fails generate_presigned_post is not called and the error is raised;
\* and when the check and the generation succeed the operation returns the
\* result, a JSON string, instead of raising.
C11_PresignedPostGatedOnOwnership ==
    last.op = "get_presigned_post" =>
        LET t == last.trace
        IN /\ First(t, "generate_presigned_post") > 0 =>
                  /\ 0 < First(t, "get_bucket_acl")
                  /\ First(t, "get_bucket_acl") < First(t, "generate_presigned_post")
                  /\ t[First(t, "get_bucket_acl")].params =
                         [Bucket |-> last.input.bucket,
                          ExpectedBucketOwner |-> last.input.account_id]
           /\ last.value.t = "str" => First(t, "generate_presigned_post") > 0
           /\ last.env.api # "none" =>
                  /\ First(t, "generate_presigned_post") = 0
                  /\ last.raised # <<>>
           /\ last.env = NoFault =>
                  /\ last.raised = <<>>
                  /\ last.value.t = "str"

\* C12: for all arguments the access point policy has exactly two statements,
\* both Allow, with Sids principal_id + '0' and principal_id + '1'; each is
\* conditioned on aws:userId StringLike principal_id + ':*'; the s3:ListBucket
\* statement is on the access point ARN and limited to s3:prefix = s3_prefix +
\* '/*'; the only resource of the s3:GetObject statement is access_point_arn +
\* '/object/' + s3_prefix + '/*'.  Every part is fixed by the three arguments.
C12_AccessPointPolicyShape ==
    last.op = "generate_access_point_policy_template" =>
        LET policy == last.value.v
            st == policy.Statement
            pid == last.input.principal_id
            arn == last.input.access_point_arn
            prefix == last.input.s3_prefix
        IN /\ last.raised = <<>>
           /\ policy.Version = "2012-10-17"
           /\ Len(st) = 2
           /\ \A i \in 1..2 :
                  /\ st[i].Effect = "Allow"
                  /\ st[i].Principal = [AWS |-> "*"]
                  /\ DOMAIN st[i].Condition = {"StringLike"}
                  /\ "aws:userId" \in DOMAIN st[i].Condition.StringLike
                  /\ st[i].Condition.StringLike["aws:userId"] = <<pid \o ":*">>
           /\ st[1].Sid = pid \o "0"
           /\ st[2].Sid = pid \o "1"
           /\ st[1].Action = "s3:ListBucket"
           /\ st[1].Resource = arn
           /\ DOMAIN st[1].Condition.StringLike = {"s3:prefix", "aws:userId"}
           /\ st[1].Condition.StringLike["s3:prefix"] = <<prefix \o "/*">>
           /\ st[2].Action = "s3:GetObject"
           /\ st[2].Resource = <<arn \o "/object/" \o prefix \o "/*">>
           /\ DOMAIN st[2].Condition.StringLike = {"aws:userId"}

\* A policy has been generated for a prefix that itself contains a '/'.
C12_Witness ==
    /\ last.op = "generate_access_point_policy_template"
    /\ last.input.s3_prefix = "curated/2023"
    /\ last.value.v.Statement[2].Resource =
           <<last.input.access_point_arn \o "/object/curated/2023/*">>

\* The characters of a string.
Chars(str) == {SubSeq(str, k, k) : k \in 1..Len(str)}

\* C13: ParamStoreStack declares exactly one externalId parameter and resolves
\* its value through a chain: the value stored in SSM at
\* /dataall/{envname}/pivotRole/externalId when there is one, otherwise the
\* value of the secret dataall-externalId-{envname}, and a newly generated id
\* of 32 characters out of A-Z, a-z, 0-9 only when both lookups fail; so a
\* synthesis with the parameter stored keeps the stored id.
C13_ExternalIdFallbackChain ==
    last.op = "ParamStoreStack" =>
        LET name == "/dataall/" \o last.input.envname \o "/pivotRole/externalId"
            declared == {i \in DOMAIN last.trace :
                            last.trace[i].params.parameter_name = name}
            cdk == last.input.cdk
        IN /\ Cardinality(declared) = 1
           /\ \A i \in declared :
                  LET id == last.trace[i].params.string_value
                  IN /\ cdk.ssm # <<>> => id = cdk.ssm[1]
                     /\ (cdk.ssm = <<>> /\ cdk.secret = "ok") => id = SecretExternalId
                     /\ (cdk.ssm = <<>> /\ cdk.secret # "ok") =>
                            /\ Len(id) = IdLength
                            /\ Chars(id) \subseteq Chars(allowed_chars)

\* C14: whenever the construction of an OmicsPipelineStack creates the code
\* Asset, code.zip is in the blueprint directory and was built by the zip step
\* of this construction, after the removal of any earlier archive; a zip step
\* that failed is followed by no Asset.
C14_AssetFromFreshArchive ==
    last.op = "OmicsPipelineStack" =>
        LET t == last.trace
        IN /\ First(t, "Asset") > 0 =>
                  /\ fs.code_zip # <<>>
                  /\ 0 < First(t, "cleanup_zip_directory")
                  /\ First(t, "cleanup_zip_directory") < First(t, "zip_directory")
                  /\ First(t, "zip_directory") < First(t, "Asset")
                  /\ t[First(t, "zip_directory")].params.built
                  /\ t[First(t, "Asset")].params.archive = [app_py |-> fs.app_py]
           /\ (First(t, "zip_directory") > 0 /\ ~t[First(t, "zip_directory")].params.built) =>
                  First(t, "Asset") = 0

\* A construction has come as far as its zip step.
C14_ZipStepReached ==
    /\ last.op = "OmicsPipelineStack"
    /\ First(last.trace, "zip_directory") > 0

====
